---- MODULE Spec2Model ----
(***************************************************************************)
(* The tauri-driver supervisor of tests/e2e/wdio.conf.ts: the module-level *)
(* handle tauriDriver, the onPrepare hook (start) and the onComplete hook  *)
(* (stop), together with the events the spawned child process, its output  *)
(* streams and the startup timer deliver to the listeners onPrepare        *)
(* registers.  Every onPrepare call is numbered 1, 2, ...; call c owns the *)
(* promise, the timer and the child process it created.                    *)
(*                                                                         *)
(* The module also holds the auto-close timer of the Toast component of    *)
(* packages/ui/src/components/common/Toast.tsx (its useEffect), which      *)
(* shares nothing with the supervisor: ToastSpec runs the component, Spec  *)
(* and FairSpec run the supervisor.                                        *)
(***************************************************************************)
EXTENDS Integers, Sequences, FiniteSets, TLC

VARIABLES
    tauriDriver,   \* the handle held by the module: 0 is null, c the child of call c
    nStarts,       \* number of onPrepare calls made so far
    promise,       \* call -> state of the promise onPrepare returned
    timer,         \* call -> state of the setTimeout armed by the call
    proc,          \* call -> state of the child process spawned by the call
    killRequested, \* call -> kill() has been called on the child's handle
    tick,          \* the calls whose 'error' emission sits in the nextTick queue, oldest first
    chunks,        \* number of 'data' events the output streams have delivered so far
    console,       \* the lines written by console.log / console.error, in order
    completed      \* onComplete has run since the last onPrepare

VARIABLES
    toastMounted,  \* the Toast is mounted (its last commit rendered it)
    toastPending,  \* the passive effects React has scheduled at the last commit
                   \* and not run yet: "none", "mount", "update" or "unmount"
    toastProps,    \* the props of the last render of the mounted Toast
    toastTimers,   \* the pending setTimeout timers of the Toast's effect, oldest first
    toastEffect,   \* number of the arming whose timer the effect's cleanup clears, or 0
    toastArmings,  \* number of timers the effect has armed so far
    toastClosed    \* the calls of onClose made so far, in order

driverVars == <<tauriDriver, nStarts, promise, timer, proc, killRequested, tick,
                chunks, console, completed>>

toastVars == <<toastMounted, toastPending, toastProps, toastTimers, toastEffect,
               toastArmings, toastClosed>>

vars == <<driverVars, toastVars>>

(***************************************************************************)
(* Toast: the props a render can pass.  duration is optional: <<>> is a    *)
(* render that omits it, <<d>> one that passes d.  onClose is the identity *)
(* of the callback function, which is what the dependency array compares.  *)
(***************************************************************************)
MaxArmings == 2   \* timers the effect arms in one run of the model
MaxClicks  == 1   \* clicks on the close button in one run of the model

DefaultDuration == 3000

ToastIds == {"a", "b"}

ToastDurations == {<<>>, <<0 - 1>>, <<0>>, <<DefaultDuration>>}

ToastCallbacks == {"f", "g"}

ToastProps == [id : ToastIds, duration : ToastDurations, onClose : ToastCallbacks]

\* no render has happened: the component is not mounted
NoProps == [id |-> "", duration |-> <<0>>, onClose |-> ""]

\* the destructuring default: `duration = 3000`
Duration(p) == IF p.duration = <<>> THEN DefaultDuration ELSE p.duration[1]

\* the dependency array of the effect
Deps(p) == <<p.id, Duration(p), p.onClose>>

\* clearTimeout(timer) of the cleanup: the timer armed as number n is
\* cancelled if it is still pending; clearing a fired timer does nothing
clearTimeout(timers, n) == SelectSeq(timers, LAMBDA t : t.n # n)

----------------------------------------------------------------------------
(* Bounds of the model *)

MaxStarts == 2
MaxChunks == 2

Calls == 1..MaxStarts

(* Output text is written over a two-letter alphabet; the readiness marker   *)
(* 'Listening on' is the two-letter text "Lo", every other text is not it.   *)
(* The chunks standard output delivers: parts of the marker, the marker      *)
(* alone, and the marker with other text before or after it.  The            *)
(* standard-error listener never looks into a chunk; the chunk it is given   *)
(* here is the one that would matter if it did, the marker.                  *)
StdoutChunks ==
    {<<"L">>, <<"o">>, <<"o", "L">>, <<"L", "o">>, <<"o", "L", "o">>, <<"L", "o", "L">>}

StderrChunks == {<<"L", "o">>}

----------------------------------------------------------------------------
(* Pure helpers *)

\* 'Listening on'
Marker == <<"L", "o">>

\* a variant of Includes that looks for needle at the start of hay only
\* (String.prototype.startsWith)
IncludesAtStart(hay, needle) ==
    /\ Len(needle) <= Len(hay)
    /\ \A j \in 1..Len(needle) : hay[j] = needle[j]

\* a variant of Includes that is content with the first letter of needle
IncludesFirstLetter(hay, needle) ==
    \E i \in 1..Len(hay) : hay[i] = needle[1]

\* String.prototype.includes: needle occurs in hay as a contiguous substring
Includes(hay, needle) ==
    \E i \in 0..(Len(hay) - Len(needle)) :
        \A j \in 1..Len(needle) : hay[i + j] = needle[j]

\* a variant of Settle in which a later resolve()/reject() replaces the outcome
SettleOverwrites(p, c, outcome) ==
    IF p[c] # "none" THEN [p EXCEPT ![c] = outcome] ELSE p

\* resolve()/reject() of a promise: only the first call settles it
Settle(p, c, outcome) ==
    IF p[c] = "pending" THEN [p EXCEPT ![c] = outcome] ELSE p

\* '[tauri-driver] Started'
StartedLine == [stream |-> "log", text |-> <<"Started">>]
\* console.error('[tauri-driver]', data.toString())
StderrLine(chunk) == [stream |-> "error", text |-> chunk]
\* console.error('[tauri-driver] Failed to start:', err)
FailedLine == [stream |-> "error", text |-> <<"Failed to start">>]

----------------------------------------------------------------------------
Init ==
    /\ tauriDriver = 0
    /\ nStarts = 0
    /\ promise = [c \in Calls |-> "none"]
    /\ timer = [c \in Calls |-> "none"]
    /\ proc = [c \in Calls |-> "none"]
    /\ killRequested = [c \in Calls |-> FALSE]
    /\ tick = <<>>
    /\ chunks = 0
    /\ console = <<>>
    /\ completed = FALSE
    /\ toastMounted = FALSE
    /\ toastPending = "none"
    /\ toastProps = NoProps
    /\ toastTimers = <<>>
    /\ toastEffect = 0
    /\ toastArmings = 0
    /\ toastClosed = <<>>

(* onPrepare: the promise executor runs synchronously.  spawn() either       *)
(* returns a handle of a running child ("ok"), returns a handle whose spawn  *)
(* failed and queues the 'error' emission on the next tick ("errorEvent"),   *)
(* or throws ("throws"), in which case the executor stops before the         *)
(* assignment and the promise is rejected with the thrown error.  The hook   *)
(* can be called at any point of a synchronous run, also while emissions     *)
(* wait in the nextTick queue.                                               *)
SpawnResults == {"ok", "errorEvent", "throws"}

\* a variant of OnPrepare that serves the first call only: a later call is
\* rejected without spawning, also after onComplete
OnPrepareOnce(result) ==
    /\ nStarts < MaxStarts
    /\ LET c == nStarts + 1 IN
        /\ nStarts' = c
        /\ completed' = FALSE
        /\ IF result = "throws" \/ nStarts > 0
           THEN /\ promise' = [promise EXCEPT ![c] = "spawnError"]
                /\ UNCHANGED <<tauriDriver, timer, proc, tick>>
           ELSE /\ tauriDriver' = c
                /\ proc' = [proc EXCEPT ![c] = IF result = "ok" THEN "running" ELSE "failed"]
                /\ tick' = IF result = "ok" THEN tick ELSE Append(tick, c)
                /\ promise' = [promise EXCEPT ![c] = "pending"]
                /\ timer' = [timer EXCEPT ![c] = "armed"]
    /\ UNCHANGED <<killRequested, chunks, console>>
    /\ UNCHANGED toastVars

OnPrepare(result) ==
    /\ nStarts < MaxStarts
    /\ LET c == nStarts + 1 IN
        /\ nStarts' = c
        /\ completed' = FALSE
        /\ IF result = "throws"
           THEN /\ promise' = [promise EXCEPT ![c] = "spawnError"]
                /\ UNCHANGED <<tauriDriver, timer, proc, tick>>
           ELSE /\ tauriDriver' = c
                /\ proc' = [proc EXCEPT ![c] = IF result = "ok" THEN "running" ELSE "failed"]
                /\ tick' = IF result = "ok" THEN tick ELSE Append(tick, c)
                /\ promise' = [promise EXCEPT ![c] = "pending"]
                /\ timer' = [timer EXCEPT ![c] = "armed"]
    /\ UNCHANGED <<killRequested, chunks, console>>
    /\ UNCHANGED toastVars

(* tauriDriver.stdout 'data' listener of call c *)
StdoutData(c, chunk) ==
    /\ tick = <<>>
    /\ proc[c] \in {"running", "exited"}
    /\ chunks < MaxChunks
    /\ chunks' = chunks + 1
    /\ IF Includes(chunk, Marker)
       THEN /\ console' = Append(console, StartedLine)
            /\ promise' = Settle(promise, c, "resolved")
       ELSE UNCHANGED <<console, promise>>
    /\ UNCHANGED <<tauriDriver, nStarts, timer, proc, killRequested, tick, completed>>
    /\ UNCHANGED toastVars

\* a variant of StderrData that also looks for the marker, as the stdout listener does
StderrDataDetects(c, chunk) ==
    /\ tick = <<>>
    /\ proc[c] \in {"running", "exited"}
    /\ chunks < MaxChunks
    /\ chunks' = chunks + 1
    /\ console' = Append(console, StderrLine(chunk))
    /\ promise' = IF Includes(chunk, Marker) THEN Settle(promise, c, "resolved") ELSE promise
    /\ UNCHANGED <<tauriDriver, nStarts, timer, proc, killRequested, tick, completed>>
    /\ UNCHANGED toastVars

(* tauriDriver.stderr 'data' listener of call c *)
StderrData(c, chunk) ==
    /\ tick = <<>>
    /\ proc[c] \in {"running", "exited"}
    /\ chunks < MaxChunks
    /\ chunks' = chunks + 1
    /\ console' = Append(console, StderrLine(chunk))
    /\ UNCHANGED <<tauriDriver, nStarts, promise, timer, proc, killRequested, tick, completed>>
    /\ UNCHANGED toastVars

(* tauriDriver 'error' listener of call c, run by the queued emission of a   *)
(* failed spawn; the nextTick queue is emptied, oldest emission first,       *)
(* before the event loop delivers any timer, stream or exit event            *)
OnError(c) ==
    /\ tick # <<>> /\ Head(tick) = c
    /\ tick' = Tail(tick)
    /\ console' = Append(console, FailedLine)
    /\ promise' = Settle(promise, c, "spawnError")
    /\ UNCHANGED <<tauriDriver, nStarts, timer, proc, killRequested, chunks, completed>>
    /\ UNCHANGED toastVars

\* a variant of OnTimeout that rejects only while the supervisor still holds
\* the child of call c
OnTimeoutIfHeld(c) ==
    /\ tick = <<>>
    /\ timer[c] = "armed"
    /\ timer' = [timer EXCEPT ![c] = "fired"]
    /\ promise' = IF tauriDriver = c THEN Settle(promise, c, "timeout") ELSE promise
    /\ UNCHANGED <<tauriDriver, nStarts, proc, killRequested, tick, chunks, console, completed>>
    /\ UNCHANGED toastVars

(* the setTimeout callback of call c; nothing ever clears the timer *)
OnTimeout(c) ==
    /\ tick = <<>>
    /\ timer[c] = "armed"
    /\ timer' = [timer EXCEPT ![c] = "fired"]
    /\ promise' = Settle(promise, c, "timeout")
    /\ UNCHANGED <<tauriDriver, nStarts, proc, killRequested, tick, chunks, console, completed>>
    /\ UNCHANGED toastVars

(* the child of call c exits by itself or after a kill; no listener observes it *)
ProcExit(c) ==
    /\ tick = <<>>
    /\ proc[c] = "running"
    /\ proc' = [proc EXCEPT ![c] = "exited"]
    /\ UNCHANGED <<tauriDriver, nStarts, promise, timer, killRequested, tick, chunks, console, completed>>
    /\ UNCHANGED toastVars

(* the output streams of an exited child end *)
ProcClose(c) ==
    /\ tick = <<>>
    /\ proc[c] = "exited"
    /\ proc' = [proc EXCEPT ![c] = "closed"]
    /\ UNCHANGED <<tauriDriver, nStarts, promise, timer, killRequested, tick, chunks, console, completed>>
    /\ UNCHANGED toastVars

(* kill() on the held handle sends the signal ("ok": also when the child     *)
(* has exited, where it does nothing), or fails ("eperm"): the signal may    *)
(* not be sent, and kill() emits 'error' on the handle before it returns,    *)
(* which runs the 'error' listener of the call that spawned the child        *)
(* inside onComplete.  A kill can fail on a running child, and on the        *)
(* handle of a failed spawn whose 'error' emission is still queued: that     *)
(* handle is still open and its process id was never set, so the process     *)
(* signalled, and with it the outcome, is whatever the build reads there.    *)
KillResults == {"ok", "eperm"}

\* the held handle is one on which kill() can fail
KillCanFail ==
    /\ tauriDriver # 0
    /\ \/ proc[tauriDriver] = "running"
       \/ /\ proc[tauriDriver] = "failed"
          /\ \E i \in DOMAIN tick : tick[i] = tauriDriver

\* a variant of OnComplete that kills the child and keeps the handle
OnCompleteKeepsHandle(kill) ==
    /\ kill = "eperm" => KillCanFail
    /\ IF tauriDriver # 0
       THEN /\ killRequested' = [killRequested EXCEPT ![tauriDriver] = TRUE]
            /\ IF kill = "eperm"
               THEN /\ console' = Append(console, FailedLine)
                    /\ promise' = Settle(promise, tauriDriver, "killError")
               ELSE UNCHANGED <<console, promise>>
       ELSE UNCHANGED <<killRequested, console, promise>>
    /\ completed' = TRUE
    /\ UNCHANGED <<tauriDriver, nStarts, timer, proc, tick, chunks>>
    /\ UNCHANGED toastVars

\* a variant of OnComplete that drops the handle and leaves the child alone
OnCompleteDropsHandle(kill) ==
    /\ kill = "ok"
    /\ tauriDriver' = 0
    /\ completed' = TRUE
    /\ UNCHANGED <<killRequested, nStarts, promise, timer, proc, tick, chunks, console>>
    /\ UNCHANGED toastVars

\* a variant of OnComplete that kills a ready driver only: the handle of a
\* start() that has not resolved is dropped without a kill
OnCompleteReadyOnly(kill) ==
    /\ kill = "eperm" => (KillCanFail /\ promise[tauriDriver] = "resolved")
    /\ IF tauriDriver # 0
       THEN /\ killRequested' = [killRequested EXCEPT
                                    ![tauriDriver] = @ \/ promise[tauriDriver] = "resolved"]
            /\ tauriDriver' = 0
            /\ console' = IF kill = "eperm" THEN Append(console, FailedLine) ELSE console
       ELSE UNCHANGED <<killRequested, tauriDriver, console>>
    /\ completed' = TRUE
    /\ UNCHANGED <<nStarts, promise, timer, proc, tick, chunks>>
    /\ UNCHANGED toastVars

(* onComplete.  The hook can be called at any point of a synchronous run,    *)
(* also while emissions wait in the nextTick queue.                          *)
OnComplete(kill) ==
    /\ kill = "eperm" => KillCanFail
    /\ IF tauriDriver # 0
       THEN /\ killRequested' = [killRequested EXCEPT ![tauriDriver] = TRUE]
            /\ IF kill = "eperm"
               THEN /\ console' = Append(console, FailedLine)
                    /\ promise' = Settle(promise, tauriDriver, "killError")
               ELSE UNCHANGED <<console, promise>>
            /\ tauriDriver' = 0
       ELSE UNCHANGED <<killRequested, tauriDriver, console, promise>>
    /\ completed' = TRUE
    /\ UNCHANGED <<nStarts, timer, proc, tick, chunks>>
    /\ UNCHANGED toastVars

Next ==
    \/ \E r \in SpawnResults : OnPrepare(r)
    \/ \E c \in Calls, k \in StdoutChunks : StdoutData(c, k)
    \/ \E c \in Calls, k \in StderrChunks : StderrData(c, k)
    \/ \E c \in Calls : OnError(c)
    \/ \E c \in Calls : OnTimeout(c)
    \/ \E c \in Calls : ProcExit(c)
    \/ \E c \in Calls : ProcClose(c)
    \/ \E k \in KillResults : OnComplete(k)

Spec == Init /\ [][Next]_vars

(* The event loop runs what it has queued: the 'error' emissions waiting for *)
(* the next tick are delivered in order, and an armed timer fires.           *)
FairSpec ==
    /\ Spec
    /\ \A c \in Calls : WF_vars(OnError(c)) /\ WF_vars(OnTimeout(c))

----------------------------------------------------------------------------
(* The body of the effect, run for the render with props p; timers are the   *)
(* timers pending when it runs and armings the timers armed so far.  The     *)
(* timer's callback closes over the id and the onClose of that render.  The  *)
(* result is the pending timers, the arming the returned cleanup clears (0   *)
(* when the effect returns nothing) and the timers armed.                    *)
Effect(p, timers, armings) ==
    IF Duration(p) > 0
    THEN [timers |-> Append(timers, [n |-> armings + 1, id |-> p.id,
                                      onClose |-> p.onClose]),
          effect |-> armings + 1,
          armings |-> armings + 1]
    ELSE [timers |-> timers, effect |-> 0, armings |-> armings]

(* React runs the passive effects a commit scheduled: after the mount the    *)
(* effect; after a render that changed a dependency the cleanup of the last  *)
(* run and then the effect; after the unmount the cleanup of the last run.   *)
(* They run in a later task than the commit, and at the latest before the    *)
(* next render starts.                                                       *)
PassiveEffects(pending, p, timers, effect, armings) ==
    CASE pending = "mount" -> Effect(p, timers, armings)
      [] pending = "update" -> Effect(p, clearTimeout(timers, effect), armings)
      [] pending = "unmount" ->
            [timers |-> clearTimeout(timers, effect), effect |-> 0, armings |-> armings]
      [] OTHER -> [timers |-> timers, effect |-> effect, armings |-> armings]

(* First render of the component and its commit: the effect is scheduled. *)
ToastMount(p) ==
    /\ ~toastMounted
    /\ LET r == PassiveEffects(toastPending, toastProps, toastTimers, toastEffect,
                               toastArmings)
       IN  /\ Duration(p) > 0 => r.armings < MaxArmings
           /\ toastTimers' = r.timers
           /\ toastEffect' = r.effect
           /\ toastArmings' = r.armings
    /\ toastMounted' = TRUE
    /\ toastProps' = p
    /\ toastPending' = "mount"
    /\ UNCHANGED toastClosed
    /\ UNCHANGED driverVars

(* A later render with other props and its commit: if a dependency changed,  *)
(* the cleanup of the last run of the effect and the effect are scheduled;   *)
(* if none changed, nothing is.                                              *)
ToastRender(p) ==
    /\ toastMounted
    /\ p # toastProps
    /\ LET r == PassiveEffects(toastPending, toastProps, toastTimers, toastEffect,
                               toastArmings)
       IN  /\ (Deps(p) # Deps(toastProps) /\ Duration(p) > 0) => r.armings < MaxArmings
           /\ toastTimers' = r.timers
           /\ toastEffect' = r.effect
           /\ toastArmings' = r.armings
    /\ toastProps' = p
    /\ toastPending' = IF Deps(p) # Deps(toastProps) THEN "update" ELSE "none"
    /\ UNCHANGED <<toastMounted, toastClosed>>
    /\ UNCHANGED driverVars

(* The component is removed: the cleanup of the last run of the effect is    *)
(* scheduled.                                                                *)
ToastUnmount ==
    /\ toastMounted
    /\ LET r == PassiveEffects(toastPending, toastProps, toastTimers, toastEffect,
                               toastArmings)
       IN  /\ toastTimers' = r.timers
           /\ toastEffect' = r.effect
           /\ toastArmings' = r.armings
    /\ toastMounted' = FALSE
    /\ toastProps' = NoProps
    /\ toastPending' = "unmount"
    /\ UNCHANGED toastClosed
    /\ UNCHANGED driverVars

(* The task that runs the scheduled passive effects. *)
ToastPassiveEffects ==
    /\ toastPending # "none"
    /\ LET r == PassiveEffects(toastPending, toastProps, toastTimers, toastEffect,
                               toastArmings)
       IN  /\ toastTimers' = r.timers
           /\ toastEffect' = r.effect
           /\ toastArmings' = r.armings
    /\ toastPending' = "none"
    /\ UNCHANGED <<toastMounted, toastProps, toastClosed>>
    /\ UNCHANGED driverVars

(* The i-th pending timer expires: its callback calls the onClose it closed  *)
(* over with the id it closed over.                                          *)
ToastTimeout(i) ==
    /\ i \in DOMAIN toastTimers
    /\ toastTimers' = [j \in 1..(Len(toastTimers) - 1) |->
                          IF j < i THEN toastTimers[j] ELSE toastTimers[j + 1]]
    /\ toastClosed' = Append(toastClosed,
                             [by |-> "timer", n |-> toastTimers[i].n,
                              id |-> toastTimers[i].id,
                              onClose |-> toastTimers[i].onClose])
    /\ UNCHANGED <<toastMounted, toastPending, toastProps, toastEffect, toastArmings>>
    /\ UNCHANGED driverVars

\* the onClose calls made by the close button so far
Clicks == Len(SelectSeq(toastClosed, LAMBDA e : e.by = "click"))

(* The close button of the rendered Toast is clicked: onClose(id) of the     *)
(* last render is called; no timer is involved.                              *)
ToastCloseClick ==
    /\ toastMounted
    /\ Clicks < MaxClicks
    /\ toastClosed' = Append(toastClosed,
                             [by |-> "click", n |-> 0, id |-> toastProps.id,
                              onClose |-> toastProps.onClose])
    /\ UNCHANGED <<toastMounted, toastPending, toastProps, toastTimers, toastEffect,
                   toastArmings>>
    /\ UNCHANGED driverVars

ToastNext ==
    \/ \E p \in ToastProps : ToastMount(p)
    \/ \E p \in ToastProps : ToastRender(p)
    \/ ToastUnmount
    \/ ToastPassiveEffects
    \/ \E i \in 1..MaxArmings : ToastTimeout(i)
    \/ ToastCloseClick

ToastSpec == Init /\ [][ToastNext]_vars

\* the onClose calls made by timers so far
TimerCloses == SelectSeq(toastClosed, LAMBDA e : e.by = "timer")

----------------------------------------------------------------------------
(* The supervisor state of the lifecycle table, read off the module state:   *)
(* the handle tauriDriver and the promise of the call that created it.  A    *)
(* supervisor that holds no handle is Terminated after onComplete and        *)
(* NotStarted otherwise (also after an onPrepare whose spawn threw, which    *)
(* launched nothing).                                                        *)
SupervisorState ==
    IF tauriDriver # 0
    THEN CASE promise[tauriDriver] = "pending" -> "Starting"
           [] promise[tauriDriver] = "resolved" -> "Ready"
           [] OTHER -> "Failed"
    ELSE IF completed THEN "Terminated" ELSE "NotStarted"

\* the children that run: spawned, not yet exited
Alive == {c \in Calls : proc[c] = "running"}

\* the driver processes associated with the supervisor: the one whose handle
\* it holds, and every child it spawned that runs and was never asked to stop
Associated ==
    {c \in Calls : tauriDriver = c \/ (proc[c] = "running" /\ ~killRequested[c])}

\* a chunk of output text holds the two marker letters next to each other
HasMarker(k) == \E i \in 1..(Len(k) - 1) : k[i] = "L" /\ k[i + 1] = "o"

\* the standard-output chunks that hold the marker
MarkerChunks == {k \in StdoutChunks : HasMarker(k)}

\* the texts carried by the value a promise in state outcome was rejected with:
\* the err of the 'error' event or of the throwing spawn, or
\* the err of the 'error' event of a failing kill, or
\* new Error('tauri-driver startup timeout')
ErrorText(outcome) ==
    CASE outcome = "timeout" -> {<<"tauri-driver startup timeout">>}
      [] outcome = "spawnError" -> {<<"spawn failed">>}
      [] outcome = "killError" -> {<<"kill EPERM">>}
      [] OTHER -> {}

\* the standard-error chunks written to the console so far
StderrLogged ==
    {console[i].text : i \in {j \in 1..Len(console) :
                                console[j].stream = "error" /\ console[j] # FailedLine}}

----------------------------------------------------------------------------
(* C1: a start() made while the supervisor holds a process (no stop() since  *)
(* the start() that spawned it) is rejected with AlreadyStartedError and     *)
(* spawns nothing: the set of spawned processes is the same after the call.  *)
C1_SecondStartRejected ==
    [][\A r \in SpawnResults :
          (tauriDriver # 0 /\ OnPrepare(r))
              => (promise'[nStarts'] = "alreadyStarted" /\ proc' = proc)]_vars

(* C2: at most one spawned driver process is alive at any time.              *)
C2_AtMostOneAlive == Cardinality(Alive) <= 1

(* C3: a standard-output chunk holding the marker, delivered while start()   *)
(* is still pending (no timeout, no process error before it), resolves that  *)
(* start(); the supervisor holding the process is then Ready.                *)
C3_MarkerResolves ==
    [][\A c \in Calls :
          promise[c] = "pending"
              => \A k \in MarkerChunks :
                    StdoutData(c, k)
                        => /\ promise'[c] = "resolved"
                           /\ (tauriDriver = c => SupervisorState' = "Ready")]_vars

\* a start() resolved by the marker while its timer is armed and its process
\* runs, the supervisor being Ready
C3_Witness ==
    \E c \in Calls :
        /\ promise[c] = "resolved" /\ timer[c] = "armed" /\ proc[c] = "running"
        /\ tauriDriver = c /\ SupervisorState = "Ready"
        /\ \E i \in 1..Len(console) : console[i] = StartedLine

(* C4: when the timer fires while start() is pending, start() rejects with   *)
(* the timeout error, and a start() rejected with the timeout error keeps    *)
(* that outcome whatever happens next, a late marker chunk included.         *)
C4_TimeoutIsFinal ==
    [][\A c \in Calls :
          /\ (promise[c] = "pending" /\ OnTimeout(c)) => promise'[c] = "timeout"
          /\ promise[c] = "timeout" => promise'[c] = "timeout"]_vars

\* the only start() timed out and a marker chunk of its process was handled later
C4_Witness ==
    /\ nStarts = 1 /\ promise[1] = "timeout"
    /\ \E i \in 1..Len(console) : console[i] = StartedLine

(* C5: when the process exits while start() is pending (no marker seen),     *)
(* start() rejects with ProcessExitError at that exit.                       *)
C5_ExitRejects ==
    [][\A c \in Calls :
          (promise[c] = "pending" /\ ProcExit(c)) => promise'[c] = "processExit"]_vars

(* C6: stop() can be called in every state, whatever the supervisor state   *)
(* and whatever waits in the nextTick queue; it always leaves the           *)
(* supervisor Terminated with no handle, also when its kill() fails, and a  *)
(* stop() of a Terminated supervisor changes nothing.                       *)
C6_StopIdempotent ==
    /\ [](ENABLED OnComplete("ok"))
    /\ [][(\E k \in KillResults : OnComplete(k))
            => /\ tauriDriver' = 0
               /\ SupervisorState' = "Terminated"
               /\ (SupervisorState = "Terminated" => UNCHANGED vars)]_vars

\* stop() has run on a supervisor whose process was already dead
C6_Witness ==
    \E c \in Calls :
        /\ proc[c] \in {"exited", "closed", "failed"} /\ killRequested[c]
        /\ SupervisorState = "Terminated"

(* C7: a stop() made while the supervisor holds a running process requests  *)
(* the kill of that process within the call, and leaves the supervisor      *)
(* Terminated with no process handle.                                       *)
C7_StopKills ==
    [][\A c \in Calls :
          (tauriDriver = c /\ proc[c] = "running" /\ \E k \in KillResults : OnComplete(k))
              => /\ killRequested'[c]
                 /\ tauriDriver' = 0
                 /\ SupervisorState' = "Terminated"]_vars

\* stop() has returned while the process it killed still runs
C7_Witness ==
    \E c \in Calls :
        /\ proc[c] = "running" /\ killRequested[c]
        /\ tauriDriver = 0 /\ SupervisorState = "Terminated"

(* C8: once the supervisor is Terminated or Failed, every process it        *)
(* spawned that still runs has had its kill requested.                      *)
C8_Released ==
    SupervisorState \in {"Terminated", "Failed"}
        => \A c \in Alive : killRequested[c]

(* C9: a spawn failure rejects start() with the spawn error on both paths:  *)
(* when spawn() throws, and when the handle emits 'error'; a start() whose  *)
(* spawn failed is never resolved.                                          *)
C9_SpawnFailureRejects ==
    \A c \in Calls :
        /\ (promise[c] # "none" /\ proc[c] = "none") => promise[c] = "spawnError"
        /\ (proc[c] = "failed" /\ \A i \in DOMAIN tick : tick[i] # c)
                => promise[c] = "spawnError"
        /\ proc[c] = "failed" => promise[c] \in {"pending", "spawnError"}

(* C10: after a start() that failed with the timeout error and a stop(),    *)
(* the next start() spawns a fresh process and is pending on it (Starting), *)
(* so that it can become Ready.                                             *)
C10_RestartAfterTimeout ==
    [][(/\ nStarts >= 1 /\ promise[nStarts] = "timeout"
        /\ SupervisorState = "Terminated"
        /\ OnPrepare("ok"))
          => /\ tauriDriver' = nStarts'
             /\ tauriDriver' # nStarts
             /\ proc'[nStarts'] = "running"
             /\ promise'[nStarts'] = "pending"
             /\ timer'[nStarts'] = "armed"
             /\ SupervisorState' = "Starting"]_vars

\* the start() after a timed-out start() and a stop() has become Ready
C10_Witness ==
    \E c \in Calls :
        /\ c > 1 /\ promise[c - 1] = "timeout" /\ killRequested[c - 1]
        /\ tauriDriver = c /\ proc[c] = "running"
        /\ promise[c] = "resolved" /\ SupervisorState = "Ready"

(* C11: when the process of the only start() has written to standard error  *)
(* and exits while that start() is pending, start() rejects with            *)
(* ProcessExitError and the error carries the standard-error text written   *)
(* so far.                                                                  *)
C11_ExitErrorCarriesStderr ==
    [][(/\ nStarts = 1 /\ promise[1] = "pending"
        /\ StderrLogged # {}
        /\ ProcExit(1))
          => /\ promise'[1] = "processExit"
             /\ StderrLogged \subseteq ErrorText(promise'[1])]_vars

(* C12: once start() has settled, a later standard-output chunk holding the *)
(* marker is inert: it changes neither the outcome of start() nor what has  *)
(* been reported on the console.                                            *)
C12_LaterMarkerInert ==
    [][\A c \in Calls :
          promise[c] \notin {"none", "pending"}
              => \A k \in MarkerChunks :
                    StdoutData(c, k) => (promise' = promise /\ console' = console)]_vars

(* C13: the timer of a start() is cleared as soon as that start() settles:  *)
(* no settled start() has an armed timer, so no timer fires after the race  *)
(* has been decided.                                                        *)
C13_TimerCleared ==
    \A c \in Calls : promise[c] \notin {"none", "pending"} => timer[c] # "armed"

(* C14: the standard-output listener of a start() is detached once that     *)
(* start() has lost the race (it was rejected by the timeout or by a        *)
(* process error) and once the supervisor has been stopped: from then on    *)
(* the listener handles no chunk.                                           *)
C14_ListenersDetached ==
    [][\A c \in Calls :
          (promise[c] \in {"timeout", "spawnError"} \/ killRequested[c])
              => \A k \in StdoutChunks : ~StdoutData(c, k)]_vars

(* C15: exactly one driver process is associated with the supervisor while  *)
(* it is Starting, Ready or Failed, and none while it is NotStarted or      *)
(* Terminated.                                                              *)
C15_ProcessMatchesState ==
    IF SupervisorState \in {"Starting", "Ready", "Failed"}
    THEN Cardinality(Associated) = 1
    ELSE Associated = {}

\* the ready line has been written to the console
StartedLogged == \E i \in 1..Len(console) : console[i] = StartedLine

(* C16: standard error never causes readiness: a standard-error chunk, with *)
(* or without the marker, leaves every promise as it is, and a start() is   *)
(* resolved only after a standard-output chunk holding the marker was       *)
(* handled.                                                                 *)
C16_StderrNeverReady ==
    /\ [](\A c \in Calls : promise[c] = "resolved" => StartedLogged)
    /\ [][\A c \in Calls, k \in StderrChunks :
            StderrData(c, k) => promise' = promise]_vars

\* the marker was written to standard error only, and start() ran into the timeout
C16_Witness ==
    /\ nStarts = 1 /\ promise[1] = "timeout"
    /\ Marker \in StderrLogged
    /\ ~StartedLogged

(* C17: every standard-error chunk, and every standard-output chunk that    *)
(* does not hold the marker, is written unmodified to the console; such a   *)
(* standard-output chunk changes neither a promise nor the supervisor       *)
(* state.                                                                   *)
C17_ChunksForwarded ==
    [][/\ \A c \in Calls, k \in StderrChunks :
            StderrData(c, k) => console' = Append(console, StderrLine(k))
       /\ \A c \in Calls, k \in StdoutChunks \ MarkerChunks :
            StdoutData(c, k)
                => /\ Len(console') = Len(console) + 1
                   /\ console'[Len(console')].text = k
                   /\ promise' = promise
                   /\ SupervisorState' = SupervisorState]_vars

(* C18: two supervisors in one test process, taking turns to call start()   *)
(* (the odd calls are made by supervisor 1, the even calls by supervisor 2) *)
(* do not interfere: a start() of one never replaces the handle the other   *)
(* holds, and a stop() of one never kills or clears the handle the other    *)
(* holds.                                                                   *)
C18_NoInterference ==
    [][LET SupervisorOf(c) == IF c % 2 = 1 THEN 1 ELSE 2
           HeldByOther(s) == tauriDriver # 0 /\ SupervisorOf(tauriDriver) # s
       IN  /\ \A r \in SpawnResults :
                (OnPrepare(r) /\ HeldByOther(SupervisorOf(nStarts + 1)))
                    => tauriDriver' = tauriDriver
           /\ \A s \in {1, 2} :
                ((\E k \in KillResults : OnComplete(k)) /\ HeldByOther(s))
                    => (tauriDriver' = tauriDriver /\ killRequested' = killRequested)]_vars

(* C19: stop() does the same to a supervisor whose start() is pending as to *)
(* a ready one: it requests the kill of the held process, drops the handle  *)
(* and leaves the supervisor Terminated; it writes to the console exactly   *)
(* when its kill() fails, and touches no counter, timer, process or queued  *)
(* emission.  The promise is not looked at: only the 'error' listener run   *)
(* by a failing kill() calls reject(), which a settled promise ignores.     *)
C19_StopSameForPending ==
    [][\A c \in Calls, k \in KillResults :
          (tauriDriver = c /\ SupervisorState \in {"Starting", "Ready"} /\ OnComplete(k))
              => /\ killRequested' = [killRequested EXCEPT ![c] = TRUE]
                 /\ tauriDriver' = 0
                 /\ SupervisorState' = "Terminated"
                 /\ console' = IF k = "eperm" THEN Append(console, FailedLine) ELSE console
                 /\ promise' = IF k = "eperm" THEN Settle(promise, c, "killError") ELSE promise
                 /\ UNCHANGED <<nStarts, timer, proc, tick, chunks>>]_vars

\* stop() has run while start() was pending: the kill is requested, the handle
\* dropped, start() still pending with its timer armed
C19_Witness ==
    \E c \in Calls :
        /\ promise[c] = "pending" /\ timer[c] = "armed"
        /\ killRequested[c] /\ tauriDriver = 0
        /\ SupervisorState = "Terminated"

(* C20: every start() eventually settles: a pending promise is resolved or  *)
(* rejected at some later point, whatever the process does.                 *)
C20_StartSettles ==
    \A c \in Calls : (promise[c] = "pending") ~> (promise[c] \notin {"none", "pending"})

\* a start() whose process was killed by stop() while it was pending and went
\* away without a word has been settled by its timer
C20_Witness ==
    \E c \in Calls :
        /\ promise[c] = "timeout" /\ killRequested[c] /\ proc[c] = "closed"
        /\ console = <<>>

(* C21: stop() does not settle a pending start(): it leaves every promise   *)
(* and every timer as they are, and a start() whose process was killed      *)
(* while it was pending is rejected only by its own timer firing, with the  *)
(* startup-timeout error.                                                   *)
C21_StopLeavesStartPending ==
    [][/\ (\E k \in KillResults : OnComplete(k)) => (promise' = promise /\ timer' = timer)
       /\ \A c \in Calls :
            (/\ killRequested[c] /\ promise[c] = "pending"
             /\ promise'[c] \notin {"pending", "resolved"})
                => /\ promise'[c] = "timeout"
                   /\ timer[c] = "armed" /\ timer'[c] = "fired"]_vars

(* C22: readiness is decided chunk by chunk: a standard-output chunk that   *)
(* does not hold the whole marker changes no promise, whatever the chunks   *)
(* before it were (the marker split over "L" and "o" included), and a       *)
(* start() becomes resolved only in the step that handles a single chunk    *)
(* holding the whole marker.                                                *)
C22_ReadinessPerChunk ==
    [][/\ \A c \in Calls, k \in StdoutChunks \ MarkerChunks :
            StdoutData(c, k) => promise' = promise
       /\ \A c \in Calls :
            (promise[c] # "resolved" /\ promise'[c] = "resolved")
                => \E k \in MarkerChunks : StdoutData(c, k)]_vars

\* two standard-output chunks without the whole marker have been handled (none
\* was logged, so none came from standard error) and start() is still pending
C22_Witness ==
    /\ nStarts = 1 /\ chunks = 2 /\ console = <<>>
    /\ promise[1] = "pending" /\ proc[1] = "running" /\ tauriDriver = 1

(* C23: the timer of a Toast.  No arming of the timer calls onClose twice;  *)
(* and whenever a timer calls onClose, the Toast is mounted, its duration   *)
(* is positive, and the timer calls the onClose of the last render with the *)
(* id of the last render: no timer armed before an unmount or before a      *)
(* change of id, duration or onClose calls onClose after it, and a Toast    *)
(* whose duration is not positive is never closed by a timer.               *)
C23_ToastTimer ==
    /\ [](\A i, j \in DOMAIN TimerCloses :
                TimerCloses[i].n = TimerCloses[j].n => i = j)
    /\ [][Len(TimerCloses') > Len(TimerCloses) =>
            /\ toastMounted
            /\ Duration(toastProps) > 0
            /\ LET e == TimerCloses'[Len(TimerCloses')]
               IN  e.id = toastProps.id /\ e.onClose = toastProps.onClose]_vars

====
